---- MODULE Spec2Model ----
(***************************************************************************)
(* Payment-intent lifecycle and transaction state machine of the           *)
(* CaptainCashout server: the Express routes of server/routes.ts, the      *)
(* DatabaseStorage they call, the transactions table of shared/schema.ts   *)
(* and the notifier of server/services/email.ts.                           *)
(*                                                                         *)
(* Every HTTP request is a process.  A handler runs without interruption   *)
(* between two awaits, so each action is one such segment; the database,   *)
(* the provider and the mail transport are shared by all requests.         *)
(***************************************************************************)
EXTENDS Integers, Sequences, FiniteSets, TLC

(* ------------------------------ bounds --------------------------------- *)

\* number of HTTP requests (Begin Payment calls and webhook deliveries)
MaxRequests == 3

\* number of requests whose handlers are running at the same time
MaxInFlight == 2

\* requests received in the termination check of the Begin Payment routes
MaxLiveRequests == 2

\* calls of createPaymentIntentMutation.mutate made by the payment page
MaxMutations == 3

(* ------------------------- strings and numbers ------------------------- *)
\* A JSON string is a sequence of one-character strings.

DigitChars == <<"0", "1", "2", "3", "4", "5", "6", "7", "8", "9">>

IsDigit(c) == \E d \in 1..10 : DigitChars[d] = c

DigitVal(c) == (CHOOSE d \in 1..10 : DigitChars[d] = c) - 1

RECURSIVE Pow10(_)
Pow10(k) == IF k = 0 THEN 1 ELSE 10 * Pow10(k - 1)

\* number of digit characters of s starting at position i
RECURSIVE CountDigits(_, _)
CountDigits(s, i) ==
    IF i <= Len(s) /\ IsDigit(s[i]) THEN 1 + CountDigits(s, i + 1) ELSE 0

\* value of the digit characters s[i .. i+n-1], read as one decimal numeral
RECURSIVE DigitsValue(_, _, _)
DigitsValue(s, i, n) ==
    IF n = 0 THEN 0
    ELSE DigitsValue(s, i, n - 1) * 10 + DigitVal(s[i + n - 1])

NaN == [nan |-> TRUE, num |-> 0, den |-> 1, used |-> 0]

\* The longest numeric prefix of s: [sign] digits [. digits].  The result is
\* NaN when the prefix has no digit, else the rational num/den and the number
\* of characters the prefix used.
ScanNumber(s) ==
    LET neg   == Len(s) >= 1 /\ s[1] = "-"
        i0    == IF neg THEN 2 ELSE 1
        nInt  == CountDigits(s, i0)
        dot   == i0 + nInt
        isDot == dot <= Len(s) /\ s[dot] = "."
        nFrac == IF isDot THEN CountDigits(s, dot + 1) ELSE 0
        mag   == DigitsValue(s, i0, nInt) * Pow10(nFrac)
                   + DigitsValue(s, dot + 1, nFrac)
    IN  IF nInt + nFrac = 0 THEN NaN
        ELSE [nan  |-> FALSE,
              num  |-> IF neg THEN 0 - mag ELSE mag,
              den  |-> Pow10(nFrac),
              used |-> (i0 - 1) + nInt + (IF isDot THEN 1 + nFrac ELSE 0)]

\* JavaScript parseFloat: the number a prefix of the string denotes, NaN if none
parseFloat(s) == ScanNumber(s)

\* Math.round(x * 100) for x = num/den: the nearest integer, halves upwards
RoundCents(x) == (2 * 100 * x.num + x.den) \div (2 * x.den)

\* NUMERIC(10,2) input of PostgreSQL: the whole string has to be a number; the
\* value is kept in cents, rounded half away from zero; anything else is an
\* error of the insert.
PgNumericOk(s) ==
    LET x == ScanNumber(s) IN
    /\ ~x.nan
    /\ x.used = Len(s)

PgNumericCents(s) ==
    LET x   == ScanNumber(s)
        mag == IF x.num < 0 THEN 0 - x.num ELSE x.num
        c   == (2 * 100 * mag + x.den) \div (2 * x.den)
    IN  IF x.num < 0 THEN 0 - c ELSE c

\* the value has at most 10 - 2 digits before the decimal point
PgNumericFits(s) ==
    LET x   == ScanNumber(s)
        mag == IF x.num < 0 THEN 0 - x.num ELSE x.num
    IN  mag \div x.den < Pow10(8)

RECURSIVE NatToChars(_)
NatToChars(n) ==
    IF n < 10 THEN <<DigitChars[n + 1]>>
    ELSE NatToChars(n \div 10) \o <<DigitChars[(n % 10) + 1]>>

\* (cents / 100).toString(): shortest decimal form, no trailing zeros
CentsToString(cents) ==
    LET mag  == IF cents < 0 THEN 0 - cents ELSE cents
        sign == IF cents < 0 THEN <<"-">> ELSE <<>>
        int  == NatToChars(mag \div 100)
        fr   == mag % 100
    IN  IF fr = 0 THEN sign \o int
        ELSE IF fr % 10 = 0 THEN sign \o int \o <<".">> \o NatToChars(fr \div 10)
        ELSE sign \o int \o <<".">> \o <<DigitChars[(fr \div 10) + 1]>>
                  \o <<DigitChars[(fr % 10) + 1]>>

(* ------------------------------- schema -------------------------------- *)

paymentStatusEnum == {"pending", "processing", "completed", "failed", "refunded"}

paymentMethodEnum == {"stripe_card", "stripe_google_pay", "stripe_apple_pay", "cellpay"}

\* rows of the credit_packages table (read only: no route inserts a package)
creditPackages ==
    { [id |-> "pkg25", credits |-> 250, price |-> 2500, isActive |-> TRUE],
      [id |-> "pkg100", credits |-> 1000, price |-> 10000, isActive |-> TRUE],
      [id |-> "pkgOld", credits |-> 100, price |-> 1000, isActive |-> FALSE] }

NoPackage == [id |-> "", credits |-> 0, price |-> 0, isActive |-> FALSE]

\* DatabaseStorage.getCreditPackage: the row with that id, active or not
getCreditPackage(id) ==
    IF \E p \in creditPackages : p.id = id
    THEN CHOOSE p \in creditPackages : p.id = id
    ELSE NoPackage

(* ------------------------------- inputs -------------------------------- *)

EmptyString == <<>>

\* amounts a caller may put in a request body
AmountInputs == { EmptyString, <<"2", "5">>, <<"-", "5">>, <<"a">> }

UsernameInputs == { "", "alice" }

PackageIdInputs == { "", "pkg25", "nope" }

\* paymentMethod of a create-payment-intent body ("stripe_card" when absent)
PaymentMethodInputs == { "stripe_card", "bank" }

TrustlyIdentityInputs ==
    { [country |-> "US", firstName |-> "Al", lastName |-> "Ice", email |-> "a@x"],
      [country |-> "US", firstName |-> "Al", lastName |-> "Ice", email |-> ""] }

PhoneNumberInputs == { "", "5550100" }

\* amounts a bank-redirect notification may state
WebhookAmountInputs == { <<"9">> }

\* a NULL column, or an id that matches no row
UnknownId == 0

\* the id of a payment intent of the provider account that no request of this
\* server created
ForeignIntentId == 0 - 1

(* -------------------------------- state -------------------------------- *)

VARIABLES
    env,            \* process.env: which secrets are configured
    transactions,   \* the transactions table, a row per id
    intents,        \* payment intents held by the card provider
    emails,         \* notifications handed to the mail transport
    reqs,           \* the requests received so far, with their handler state
    now,            \* the database clock
    page            \* the state of the payment page in one browser

vars == <<env, transactions, intents, emails, reqs, now, page>>

NoTransaction ==
    [id |-> UnknownId, username |-> "", packageId |-> "", amount |-> 0,
     credits |-> 0, paymentMethod |-> "", paymentStatus |-> "",
     stripePaymentIntentId |-> UnknownId, createdAt |-> 0, updatedAt |-> 0]

NoResponse == [status |-> 0, message |-> <<>>, transactionId |-> UnknownId,
               clientSecret |-> UnknownId, providerTransactionId |-> UnknownId]

NoAdapter == [success |-> FALSE, transactionId |-> UnknownId, error |-> ""]

NoIntent == [id |-> UnknownId, amount |-> 0, client_secret |-> UnknownId,
             metadata |-> [username |-> "", packageId |-> "",
                           paymentMethod |-> "", credits |-> <<>>]]

\* the useState values of PaymentPage when it is mounted, and the calls of
\* createPaymentIntentMutation.mutate made so far (none)
PageMounted ==
    [username |-> "", selectedPackage |-> NoPackage, customAmount |-> EmptyString,
     useCustomAmount |-> FALSE, paymentMethod |-> "stripe",
     clientSecret |-> UnknownId, isPaymentReady |-> FALSE, mutations |-> <<>>]

Init ==
    /\ env \in [STRIPE_SECRET_KEY : BOOLEAN, STRIPE_WEBHOOK_SECRET : BOOLEAN]
    /\ transactions = <<>>
    /\ intents = <<>>
    /\ emails = <<>>
    /\ reqs = <<>>
    /\ now = 0
    /\ page = PageMounted


(* ------------------------------- storage ------------------------------- *)

TxIds == DOMAIN transactions

\* DatabaseStorage.getTransaction: the row with that id, if any
getTransaction(id) ==
    IF id \in TxIds THEN transactions[id] ELSE NoTransaction

\* DatabaseStorage.getTransactionByPaymentIntentId: the first row whose
\* stripe_payment_intent_id equals the given id (NULL equals nothing)
getTransactionByPaymentIntentId(paymentIntentId) ==
    LET hits == { t \in TxIds :
                    /\ transactions[t].stripePaymentIntentId # UnknownId
                    /\ transactions[t].stripePaymentIntentId = paymentIntentId }
    IN  IF hits = {} THEN NoTransaction
        ELSE transactions[CHOOSE t \in hits : \A u \in hits : t <= u]

\* The insert of DatabaseStorage.createTransaction is accepted by the table:
\* NOT NULL columns are given, the method is a label of the payment_method
\* enum, the amount is a NUMERIC(10,2) and the package id references a row.
createTransactionOk(draft) ==
    /\ draft.paymentMethod \in paymentMethodEnum
    /\ PgNumericOk(draft.amount)
    /\ PgNumericFits(draft.amount)
    /\ \E p \in creditPackages : p.id = draft.packageId

\* createTransaction as it would be if the insert dropped the provider
\* reference of the draft
createTransactionWithoutReference(draft) ==
    [id |-> Len(transactions) + 1,
     username |-> draft.username,
     packageId |-> draft.packageId,
     amount |-> PgNumericCents(draft.amount),
     credits |-> draft.credits,
     paymentMethod |-> draft.paymentMethod,
     paymentStatus |-> "pending",
     stripePaymentIntentId |-> UnknownId,
     createdAt |-> now + 1,
     updatedAt |-> now + 1]

\* the row storage.createTransaction returns when the stored credits are
\* worked out from the amount (a hundred credits per unit) and not copied
\* from the draft
createTransactionCreditsFromAmount(draft) ==
    [id |-> Len(transactions) + 1,
     username |-> draft.username,
     packageId |-> draft.packageId,
     amount |-> PgNumericCents(draft.amount),
     credits |-> PgNumericCents(draft.amount),
     paymentMethod |-> draft.paymentMethod,
     paymentStatus |-> "pending",
     stripePaymentIntentId |-> draft.stripePaymentIntentId,
     createdAt |-> now + 1,
     updatedAt |-> now + 1]

\* the row DatabaseStorage.createTransaction inserts and returns
createTransaction(draft) ==
    [id |-> Len(transactions) + 1,
     username |-> draft.username,
     packageId |-> draft.packageId,
     amount |-> PgNumericCents(draft.amount),
     credits |-> draft.credits,
     paymentMethod |-> draft.paymentMethod,
     paymentStatus |-> "pending",
     stripePaymentIntentId |-> draft.stripePaymentIntentId,
     createdAt |-> now + 1,
     updatedAt |-> now + 1]

\* the table after an update that matches no row (a where clause on the
\* wrong column)
updateTransactionStatusNoMatch(id, status) == transactions

\* the table after an update without its where clause: every row gets the
\* status
updateTransactionStatusNoWhere(id, status) ==
    [t \in TxIds |-> [transactions[t] EXCEPT !.paymentStatus = status,
                                             !.updatedAt = now + 1]]

\* the table after DatabaseStorage.updateTransactionStatus(id, status): the
\* row with that id gets the status and a new updated_at, whatever its status
\* was; no row with that id: no row changes
updateTransactionStatus(id, status) ==
    IF id \in TxIds
    THEN [transactions EXCEPT ![id].paymentStatus = status,
                              ![id].updatedAt = now + 1]
    ELSE transactions

\* what a call of DatabaseStorage.updateTransactionStatus gives its caller:
\* the updated row, or undefined when no row has that id; the method has no
\* throw of its own
updateTransactionStatusResult(id, status) ==
    [threw |-> FALSE,
     transaction |-> IF id \in TxIds
                     THEN updateTransactionStatus(id, status)[id]
                     ELSE NoTransaction]

(* ------------------------------ notifier ------------------------------- *)

\* isSuccess of sendPaymentNotificationEmail
isSuccess(data) == data.status = "success"

\* the mail sendPaymentNotificationEmail hands to the transport; delivered
\* tells whether transporter.sendMail resolved
Mail(data, delivered) ==
    [username |-> data.username,
     amount |-> data.amount,
     transactionId |-> data.transactionId,
     paymentMethod |-> data.paymentMethod,
     subject |-> IF isSuccess(data) THEN "Payment Successful" ELSE "Payment Failed",
     delivered |-> delivered]

\* sendPaymentNotificationEmail with a catch that throws the error again
sendPaymentNotificationEmailRethrowing(data, delivered) ==
    [mail |-> Mail(data, delivered), threw |-> ~delivered]

\* sendPaymentNotificationEmail: the mail it hands to the transport, and
\* whether the call throws.  A rejection of sendMail is caught and logged, so
\* the caller never sees it.
sendPaymentNotificationEmail(data, delivered) ==
    [mail |-> Mail(data, delivered), threw |-> FALSE]

(* ------------------------------ requests ------------------------------- *)

ReqIds == DOMAIN reqs

InFlight == { r \in ReqIds : reqs[r].pc # "done" }

\* the server can take one more request
CanReceive == Len(reqs) < MaxRequests /\ Cardinality(InFlight) < MaxInFlight

NewRequest(kind, body) ==
    [kind |-> kind, body |-> body, pc |-> "start",
     creditPackage |-> NoPackage, paymentIntent |-> NoIntent,
     transaction |-> NoTransaction, adapter |-> NoAdapter, res |-> NoResponse]

Response(status, message) ==
    [NoResponse EXCEPT !.status = status, !.message = message]

\* the handler of request r moves to the next await
Goto(r, pc) == [reqs EXCEPT ![r].pc = pc]

\* the handler of request r answers and ends
Respond(q, res) == [q EXCEPT !.pc = "done", !.res = res]

(* ------------------- POST /api/create-payment-intent ------------------- *)

\* what stripe.paymentIntents.create is asked to charge, in cents
IntentAmount(amount) == RoundCents(parseFloat(amount))

\* the provider accepts only a positive integer number of cents
IntentAmountOk(amount) == ~parseFloat(amount).nan /\ IntentAmount(amount) >= 1

\* The request arrives; the handler checks the body, reads the package (a
\* table no route writes) and checks that the provider client exists.
CreatePaymentIntent(body) ==
    /\ CanReceive
    /\ LET q == NewRequest("card", body)
           creditPackage == getCreditPackage(body.packageId)
       IN  reqs' = Append(reqs,
             IF body.amount = EmptyString \/ body.username = "" \/ body.packageId = ""
             THEN Respond(q, Response(400, <<"Missing required fields: amount, username, packageId">>))
             ELSE IF creditPackage = NoPackage
             THEN Respond(q, Response(404, <<"Credit package not found">>))
             ELSE IF ~env.STRIPE_SECRET_KEY
             THEN Respond(q, Response(500, <<"Payment processing not configured">>))
             ELSE [q EXCEPT !.pc = "createIntent", !.creditPackage = creditPackage])
    /\ UNCHANGED <<page, env, transactions, intents, emails, now>>

\* stripe.paymentIntents.create called so that an earlier intent of the same
\* request data is returned again
paymentIntentsCreateIdempotent(r) ==
    LET body == reqs[r].body
        same == { i \in DOMAIN intents :
                    /\ intents[i].amount = IntentAmount(body.amount)
                    /\ intents[i].metadata.username = body.username
                    /\ intents[i].metadata.packageId = body.packageId }
    IN  [id |-> IF same = {} THEN Len(intents) + 1
                ELSE intents[CHOOSE i \in same : TRUE].id,
         amount |-> IntentAmount(body.amount),
         client_secret |-> Len(intents) + 1,
         metadata |-> [username |-> body.username,
                       packageId |-> body.packageId,
                       paymentMethod |-> body.paymentMethod,
                       credits |-> NatToChars(reqs[r].creditPackage.credits)]]

\* the intent stripe.paymentIntents.create returns for request r: the
\* provider gives every intent a new id and client secret
paymentIntentsCreate(r) ==
    LET body == reqs[r].body
    IN  [id |-> Len(intents) + 1,
         amount |-> IntentAmount(body.amount),
         client_secret |-> Len(intents) + 1,
         metadata |-> [username |-> body.username,
                       packageId |-> body.packageId,
                       paymentMethod |-> body.paymentMethod,
                       credits |-> NatToChars(reqs[r].creditPackage.credits)]]

\* stripe.paymentIntents.create answers: an intent, or an error (always an
\* error when the amount is not a positive number of cents)
StripeCreateIntent(r) ==
    /\ reqs[r].kind = "card" /\ reqs[r].pc = "createIntent"
    /\ LET body == reqs[r].body
           paymentIntent == paymentIntentsCreate(r)
       IN  \/ /\ IntentAmountOk(body.amount)
              /\ intents' = Append(intents, paymentIntent)
              /\ reqs' = [reqs EXCEPT ![r].pc = "createTransaction",
                                      ![r].paymentIntent = paymentIntent]
           \/ /\ intents' = intents
              /\ reqs' = [reqs EXCEPT ![r] = Respond(@, Response(500,
                            <<"Error creating payment intent: ", "provider error">>))]
    /\ UNCHANGED <<page, env, transactions, emails, now>>

\* storage.createTransaction answers, and the handler returns the client secret
CardCreateTransaction(r) ==
    /\ reqs[r].kind = "card" /\ reqs[r].pc = "createTransaction"
    /\ LET body == reqs[r].body
           draft == [username |-> body.username,
                     packageId |-> body.packageId,
                     amount |-> body.amount,
                     credits |-> reqs[r].creditPackage.credits,
                     paymentMethod |-> body.paymentMethod,
                     stripePaymentIntentId |-> reqs[r].paymentIntent.id]
           transaction == createTransaction(draft)
       IN  IF createTransactionOk(draft)
           THEN /\ transactions' = Append(transactions, transaction)
                /\ now' = now + 1
                /\ reqs' = [reqs EXCEPT ![r] = Respond([@ EXCEPT !.transaction = transaction],
                              [NoResponse EXCEPT !.status = 200,
                                  !.clientSecret = reqs[r].paymentIntent.client_secret,
                                  !.transactionId = transaction.id])]
           ELSE /\ UNCHANGED <<transactions, now>>
                /\ reqs' = [reqs EXCEPT ![r] = Respond(@, Response(500,
                              <<"Error creating payment intent: ", "insert rejected">>))]
    /\ UNCHANGED <<page, env, intents, emails>>

(* ---------- POST /api/cellpay-payment, POST /api/trustly-payment -------- *)

CellPayPayment(body) ==
    /\ CanReceive
    /\ LET q == NewRequest("cellpay", body)
           creditPackage == getCreditPackage(body.packageId)
       IN  reqs' = Append(reqs,
             IF \/ body.amount = EmptyString \/ body.username = ""
                \/ body.packageId = "" \/ body.phoneNumber = ""
             THEN Respond(q, Response(400, <<"Missing required fields: amount, username, packageId, phoneNumber">>))
             ELSE IF creditPackage = NoPackage
             THEN Respond(q, Response(404, <<"Package not found">>))
             ELSE [q EXCEPT !.pc = "createTransaction", !.creditPackage = creditPackage])
    /\ UNCHANGED <<page, env, transactions, intents, emails, now>>

TrustlyPayment(body) ==
    /\ CanReceive
    /\ LET q == NewRequest("trustly", body)
           creditPackage == getCreditPackage(body.packageId)
       IN  reqs' = Append(reqs,
             IF \/ body.amount = EmptyString \/ body.username = ""
                \/ body.packageId = "" \/ body.country = ""
                \/ body.firstName = "" \/ body.lastName = "" \/ body.email = ""
             THEN Respond(q, Response(400, <<"Missing required fields: amount, username, packageId, country, firstName, lastName, email">>))
             ELSE IF creditPackage = NoPackage
             THEN Respond(q, Response(404, <<"Package not found">>))
             ELSE [q EXCEPT !.pc = "createTransaction", !.creditPackage = creditPackage])
    /\ UNCHANGED <<page, env, transactions, intents, emails, now>>

ErrorPrefix(kind) ==
    IF kind = "cellpay" THEN "Error processing CellPay payment: "
    ELSE "Error processing Trustly payment: "

\* storage.createTransaction of the two synchronous routes answers.  The
\* bank-redirect route inserts paymentMethod 'trustly', which is no label of
\* the payment_method enum: the table rejects its insert and the route ends
\* in its catch.
SyncCreateTransaction(r) ==
    /\ reqs[r].kind \in {"cellpay", "trustly"} /\ reqs[r].pc = "createTransaction"
    /\ LET body == reqs[r].body
           draft == [username |-> body.username,
                     packageId |-> body.packageId,
                     amount |-> body.amount,
                     credits |-> reqs[r].creditPackage.credits,
                     paymentMethod |-> reqs[r].kind,
                     stripePaymentIntentId |-> UnknownId]
           transaction == createTransaction(draft)
       IN  IF createTransactionOk(draft)
           THEN /\ transactions' = Append(transactions, transaction)
                /\ now' = now + 1
                /\ reqs' = [reqs EXCEPT ![r].pc = "processPayment",
                                        ![r].transaction = transaction]
           ELSE /\ UNCHANGED <<transactions, now>>
                /\ reqs' = [reqs EXCEPT ![r] = Respond(@, Response(500,
                              <<ErrorPrefix(reqs[r].kind), "insert rejected">>))]
    /\ UNCHANGED <<page, env, intents, emails>>

\* what processCellPayPayment can return: the provider answered ok, answered
\* not ok, or the fetch threw
processCellPayPayment(paymentData) ==
    { [success |-> TRUE, transactionId |-> paymentData.transactionId, error |-> ""],
      [success |-> FALSE, transactionId |-> UnknownId, error |-> "CellPay payment failed"],
      [success |-> FALSE, transactionId |-> UnknownId, error |-> "fetch failed"] }

\* what processTrustlyPayment can return: always the mock redirect
processTrustlyPayment(paymentData) ==
    { [success |-> TRUE, transactionId |-> paymentData.transactionId, error |-> ""] }

\* the provider adapter of the route answers
ProcessPayment(r) ==
    /\ reqs[r].kind \in {"cellpay", "trustly"} /\ reqs[r].pc = "processPayment"
    /\ LET paymentData == [amount |-> parseFloat(reqs[r].body.amount),
                           transactionId |-> reqs[r].transaction.id]
       IN  \E response \in IF reqs[r].kind = "cellpay"
                            THEN processCellPayPayment(paymentData)
                            ELSE processTrustlyPayment(paymentData) :
             reqs' = [reqs EXCEPT ![r].pc = "updateStatus", ![r].adapter = response]
    /\ UNCHANGED <<page, env, transactions, intents, emails, now>>

\* the catch block of a synchronous route, with the variant that marks the
\* transaction failed before answering
CatchSyncMarksFailed(r, detail) ==
    /\ transactions' = updateTransactionStatus(reqs[r].transaction.id, "failed")
    /\ reqs' = [reqs EXCEPT ![r] = Respond(@, Response(500,
                  <<ErrorPrefix(reqs[r].kind), detail>>))]

\* the catch block of a synchronous route: it answers 500 with the message
\* of the error and touches nothing else
CatchSync(r, detail) ==
    /\ transactions' = transactions
    /\ reqs' = [reqs EXCEPT ![r] = Respond(@, Response(500,
                  <<ErrorPrefix(reqs[r].kind), detail>>))]

\* storage.updateTransactionStatus of the synchronous route answers: the row
\* is written, or the store call rejects (this is the one call between the
\* insert and the answer that can throw: the adapters return their errors and
\* the notifier swallows its own) and the handler ends in its catch.  After
\* a failed payment the handler answers 400 right away.
SyncUpdateStatus(r) ==
    /\ reqs[r].kind \in {"cellpay", "trustly"} /\ reqs[r].pc = "updateStatus"
    /\ \/ /\ now' = now + 1
          /\ IF reqs[r].adapter.success
             THEN /\ transactions' = updateTransactionStatus(reqs[r].transaction.id, "completed")
                  /\ reqs' = Goto(r, "notify")
             ELSE /\ transactions' = updateTransactionStatus(reqs[r].transaction.id, "failed")
                  /\ reqs' = [reqs EXCEPT ![r] = Respond(@, Response(400, <<reqs[r].adapter.error>>))]
       \/ /\ now' = now
          /\ CatchSync(r, "store error")
    /\ UNCHANGED <<page, env, intents, emails>>

\* sendPaymentNotificationEmail of the synchronous route returns, and the
\* handler answers with the transaction id
SyncNotify(r) ==
    /\ reqs[r].kind \in {"cellpay", "trustly"} /\ reqs[r].pc = "notify"
    /\ \E delivered \in BOOLEAN :
         LET data == [username |-> reqs[r].body.username,
                      amount |-> reqs[r].body.amount,
                      credits |-> reqs[r].creditPackage.credits,
                      transactionId |-> reqs[r].transaction.id,
                      paymentMethod |-> IF reqs[r].kind = "cellpay" THEN "CellPay" ELSE "Trustly",
                      status |-> "undefined"]
             sent == sendPaymentNotificationEmail(data, delivered)
         IN  /\ emails' = Append(emails, sent.mail)
             /\ IF sent.threw
                THEN CatchSync(r, "mail error")
                ELSE /\ transactions' = transactions
                     /\ reqs' = [reqs EXCEPT ![r] = Respond(@,
                                   [NoResponse EXCEPT !.status = 200,
                                       !.transactionId = reqs[r].transaction.id,
                                       !.providerTransactionId = reqs[r].adapter.transactionId])]
    /\ UNCHANGED <<page, env, intents, now>>

(* ------- POST /api/trustly-webhook, POST /api/stripe-webhook ------------ *)

\* The bank-redirect notification arrives.  Nothing is verified: any body
\* with method "credit" goes on to look the transaction up.
TrustlyWebhook(notification) ==
    /\ CanReceive
    /\ LET q == NewRequest("trustlyWebhook", notification)
       IN  reqs' = Append(reqs,
             IF notification.method = "credit"
             THEN [q EXCEPT !.pc = "lookup"]
             ELSE Respond(q, Response(200, <<"OK">>)))
    /\ UNCHANGED <<page, env, transactions, intents, emails, now>>

\* the payment intent a card-provider event carries
EventObject(id) ==
    IF id \in DOMAIN intents THEN intents[id] ELSE [NoIntent EXCEPT !.id = id]

\* The card-provider event arrives.  The handler needs the webhook secret and
\* the provider client, and constructEvent throws on a bad signature.
StripeWebhook(event) ==
    /\ CanReceive
    /\ LET q == NewRequest("stripeWebhook", event)
       IN  reqs' = Append(reqs,
             IF ~env.STRIPE_WEBHOOK_SECRET
             THEN Respond(q, Response(400, <<"Missing Stripe webhook secret">>))
             ELSE IF ~env.STRIPE_SECRET_KEY
             THEN Respond(q, Response(500, <<"Stripe not configured">>))
             ELSE IF ~event.signatureValid
             THEN Respond(q, Response(400, <<"No signatures found matching the expected signature">>))
             ELSE IF event.type = "payment_intent.succeeded"
             THEN [q EXCEPT !.pc = "lookup", !.paymentIntent = EventObject(event.paymentIntent)]
             ELSE Respond(q, Response(200, <<"received">>)))
    /\ UNCHANGED <<page, env, transactions, intents, emails, now>>

Webhooks == {"trustlyWebhook", "stripeWebhook"}

\* storage.getTransaction / getTransactionByPaymentIntentId answers; the
\* handler keeps the row it read.  No row: the bank-redirect handler answers
\* OK, the card handler answers 404.
WebhookLookup(r) ==
    /\ reqs[r].kind \in Webhooks /\ reqs[r].pc = "lookup"
    /\ LET transaction == IF reqs[r].kind = "trustlyWebhook"
                          THEN getTransaction(reqs[r].body.messageid)
                          ELSE getTransactionByPaymentIntentId(reqs[r].paymentIntent.id)
       IN  reqs' = [reqs EXCEPT ![r] =
             IF transaction # NoTransaction
             THEN [@ EXCEPT !.pc = "updateStatus", !.transaction = transaction]
             ELSE IF reqs[r].kind = "trustlyWebhook"
             THEN Respond(@, Response(200, <<"OK">>))
             ELSE Respond(@, Response(404, <<"Transaction not found">>))]
    /\ UNCHANGED <<page, env, transactions, intents, emails, now>>

\* storage.updateTransactionStatus(transaction.id, 'completed') answers
WebhookUpdateStatus(r) ==
    /\ reqs[r].kind \in Webhooks /\ reqs[r].pc = "updateStatus"
    /\ transactions' = updateTransactionStatus(reqs[r].transaction.id, "completed")
    /\ now' = now + 1
    /\ reqs' = Goto(r, "notify")
    /\ UNCHANGED <<page, env, intents, emails>>

\* parseInt of a string of digits
parseInt(s) == DigitsValue(s, 1, CountDigits(s, 1))

\* sendPaymentNotificationEmail of the webhook returns, and the handler
\* acknowledges the event (its catch answers 400)
WebhookNotify(r) ==
    /\ reqs[r].kind \in Webhooks /\ reqs[r].pc = "notify"
    /\ \E delivered \in BOOLEAN :
         LET data == IF reqs[r].kind = "trustlyWebhook"
                     THEN [username |-> reqs[r].transaction.username,
                           amount |-> reqs[r].body.amount,
                           credits |-> reqs[r].transaction.credits,
                           transactionId |-> reqs[r].transaction.id,
                           paymentMethod |-> "Trustly",
                           status |-> "undefined"]
                     ELSE [username |-> reqs[r].paymentIntent.metadata.username,
                           amount |-> CentsToString(reqs[r].paymentIntent.amount),
                           credits |-> parseInt(reqs[r].paymentIntent.metadata.credits),
                           transactionId |-> reqs[r].transaction.id,
                           paymentMethod |-> "Stripe",
                           status |-> "undefined"]
             sent == sendPaymentNotificationEmail(data, delivered)
         IN  /\ emails' = Append(emails, sent.mail)
             /\ reqs' = [reqs EXCEPT ![r] = Respond(@,
                           IF sent.threw
                           THEN Response(400, <<"mail error">>)
                           ELSE Response(200, IF reqs[r].kind = "trustlyWebhook"
                                              THEN <<"OK">> ELSE <<"received">>))]
    /\ UNCHANGED <<page, env, transactions, intents, now>>

(* ---------------------------- specification ---------------------------- *)

\* The bodies a caller sends: the checks of a handler look at one field each,
\* so a body is a well-formed one with at most one field changed.
GoodBody == [amount |-> <<"2", "5">>, username |-> "alice", packageId |-> "pkg25"]

BeginBodies ==
    { [GoodBody EXCEPT !.amount = a] : a \in AmountInputs }
    \cup { [GoodBody EXCEPT !.username = u] : u \in UsernameInputs }
    \cup { [GoodBody EXCEPT !.packageId = p] : p \in PackageIdInputs }

WithCard(b, paymentMethod) ==
    [amount |-> b.amount, username |-> b.username, packageId |-> b.packageId,
     paymentMethod |-> paymentMethod]

\* the amount of GoodBody with the larger package: the caller's amount is not
\* the price of the package
OtherPackageBody == [GoodBody EXCEPT !.packageId = "pkg100"]

\* GoodBody with the package that is no longer on sale
InactivePackageBody == [GoodBody EXCEPT !.packageId = "pkgOld"]

CardBodies ==
    { WithCard(b, "stripe_card") :
        b \in BeginBodies \cup {OtherPackageBody, InactivePackageBody} }
    \cup { WithCard(GoodBody, m) : m \in PaymentMethodInputs }

WithPhone(b, phoneNumber) ==
    [amount |-> b.amount, username |-> b.username, packageId |-> b.packageId,
     phoneNumber |-> phoneNumber]

CellPayBodies ==
    { WithPhone(b, "5550100") : b \in BeginBodies }
    \cup { WithPhone(GoodBody, ph) : ph \in PhoneNumberInputs }

WithIdentity(b, i) ==
    [amount |-> b.amount, username |-> b.username, packageId |-> b.packageId,
     country |-> i.country, firstName |-> i.firstName, lastName |-> i.lastName,
     email |-> i.email]

GoodIdentity == [country |-> "US", firstName |-> "Al", lastName |-> "Ice", email |-> "a@x"]

TrustlyBodies ==
    { WithIdentity(b, GoodIdentity) : b \in BeginBodies }
    \cup { WithIdentity(GoodBody, i) : i \in TrustlyIdentityInputs }

\* notifications anybody can post: one that is not a credit, and a credit for
\* each stored transaction id and for an unknown id
TrustlyNotifications ==
    { [method |-> "debit", messageid |-> UnknownId, amount |-> a] : a \in WebhookAmountInputs }
    \cup [method : {"credit"}, messageid : TxIds \cup {UnknownId},
          amount : WebhookAmountInputs]

\* events of the card provider (validly signed) and forged ones, about an
\* intent this server created or about another one
StripeEvents ==
    [signatureValid : {TRUE},
     type : {"payment_intent.succeeded", "payment_intent.payment_failed"},
     paymentIntent : DOMAIN intents \cup {ForeignIntentId}]
    \cup [signatureValid : {FALSE}, type : {"payment_intent.succeeded"},
          paymentIntent : DOMAIN intents \cup {ForeignIntentId}]

Next ==
    \/ \E body \in CardBodies : CreatePaymentIntent(body)
    \/ \E r \in ReqIds : StripeCreateIntent(r)
    \/ \E r \in ReqIds : CardCreateTransaction(r)
    \/ \E body \in CellPayBodies : CellPayPayment(body)
    \/ \E body \in TrustlyBodies : TrustlyPayment(body)
    \/ \E r \in ReqIds : SyncCreateTransaction(r)
    \/ \E r \in ReqIds : ProcessPayment(r)
    \/ \E r \in ReqIds : SyncUpdateStatus(r)
    \/ \E r \in ReqIds : SyncNotify(r)
    \/ \E notification \in TrustlyNotifications : TrustlyWebhook(notification)
    \/ \E event \in StripeEvents : StripeWebhook(event)
    \/ \E r \in ReqIds : WebhookLookup(r)
    \/ \E r \in ReqIds : WebhookUpdateStatus(r)
    \/ \E r \in ReqIds : WebhookNotify(r)

Spec == Init /\ [][Next]_vars

(* ------------------------------ properties ----------------------------- *)

Terminal == {"completed", "failed"}

BeginPayments == {"card", "cellpay", "trustly"}

Done(r) == reqs[r].pc = "done"

\* the notifications sent about transaction t
MailsFor(t) == { i \in DOMAIN emails : emails[i].transactionId = t }

\* request r takes a step
Steps(r) == r \in ReqIds /\ reqs'[r] # reqs[r]

\* the event of webhook request r passed the verification of its provider:
\* the card handler checks a signature against the configured secret, the
\* bank-redirect handler has no secret and verifies nothing
Verified(r) ==
    /\ reqs[r].kind = "stripeWebhook"
    /\ env.STRIPE_WEBHOOK_SECRET
    /\ reqs[r].body.signatureValid

\* a decimal string that is a positive amount
IsPositiveDecimal(s) == PgNumericOk(s) /\ PgNumericCents(s) > 0

\* C1: idempotent webhook delivery.  Once a delivery of an event has been
\* answered, a second delivery of the same event that finds the transaction
\* in a terminal status performs no status update, sends no notification and
\* is acknowledged with a success response.
C1_IdempotentWebhook ==
    [][\A r \in ReqIds :
         ( /\ reqs[r].kind \in Webhooks
           /\ reqs[r].transaction.paymentStatus \in Terminal
           /\ \E r1 \in ReqIds :
                 /\ r1 < r /\ Done(r1) /\ reqs[r1].res.status = 200
                 /\ reqs[r1].kind = reqs[r].kind
                 /\ reqs[r1].body = reqs[r].body
           /\ Steps(r) )
         => /\ transactions' = transactions
            /\ emails' = emails
            /\ reqs'[r].pc = "done" => reqs'[r].res.status = 200]_vars

\* C2: race safety.  Two webhook handlers that both read the same
\* transaction while it was still pending (they ran concurrently) end with
\* exactly one notification for it, and both are acknowledged.
C2_RaceSafety ==
    \A r1, r2 \in ReqIds :
        ( /\ r1 # r2
          /\ reqs[r1].kind \in Webhooks /\ reqs[r2].kind \in Webhooks
          /\ reqs[r1].transaction.id # UnknownId
          /\ reqs[r1].transaction.id = reqs[r2].transaction.id
          /\ reqs[r1].transaction.paymentStatus = "pending"
          /\ reqs[r2].transaction.paymentStatus = "pending"
          /\ Done(r1) /\ Done(r2) )
        => /\ Cardinality(MailsFor(reqs[r1].transaction.id)) = 1
           /\ reqs[r1].res.status = 200 /\ reqs[r2].res.status = 200

\* C3: terminal statuses are absorbing.  No step changes the status of a
\* transaction that is completed or failed.
C3_TerminalAbsorbing ==
    [][\A t \in TxIds :
         transactions[t].paymentStatus \in Terminal
         => transactions'[t].paymentStatus = transactions[t].paymentStatus]_vars

\* C4: at most one notification per transaction across both paths.  A
\* transaction of a synchronous route (carrier billing, bank redirect) has at
\* most one notification, and a webhook that read it as completed has not
\* written its status again.
C4_OneNotificationAcrossPaths ==
    /\ \A t \in TxIds :
         transactions[t].paymentMethod \in {"cellpay", "trustly"}
         => Cardinality(MailsFor(t)) <= 1
    /\ \A r \in ReqIds :
         ( /\ reqs[r].kind \in Webhooks /\ Done(r)
           /\ reqs[r].transaction.paymentMethod \in {"cellpay", "trustly"}
           /\ reqs[r].transaction.paymentStatus = "completed" )
         => transactions[reqs[r].transaction.id].updatedAt = reqs[r].transaction.updatedAt

\* C5: ordering in Begin Payment.  While a Begin Payment request waits for
\* its provider call, the transaction of the request exists in the store.
C5_TransactionBeforeProviderCall ==
    \A r \in ReqIds :
        ( /\ reqs[r].kind \in BeginPayments
          /\ reqs[r].pc \in {"createIntent", "processPayment"} )
        => reqs[r].transaction.id \in TxIds

\* C6: a Begin Payment whose amount is not a positive decimal (so outside any
\* bounds) creates no transaction and no payment intent at the provider.
C6_BadAmountRejected ==
    \A r \in ReqIds :
        ( /\ reqs[r].kind \in BeginPayments
          /\ ~IsPositiveDecimal(reqs[r].body.amount) )
        => /\ reqs[r].transaction = NoTransaction
           /\ reqs[r].paymentIntent = NoIntent

\* C7: a verified settlement event whose provider reference matches no stored
\* transaction is acknowledged with a success response.
C7_UnknownReferenceAcknowledged ==
    \A r \in ReqIds :
        ( /\ reqs[r].kind = "stripeWebhook" /\ Verified(r) /\ env.STRIPE_SECRET_KEY
          /\ reqs[r].body.type = "payment_intent.succeeded"
          /\ Done(r)
          /\ reqs[r].transaction = NoTransaction )
        => reqs[r].res.status = 200

\* C8: fail-closed webhook authentication.  An event that was not verified
\* and names a stored transaction causes no status update and no
\* notification, and is not acknowledged as a success.
C8_FailClosedWebhook ==
    \A r \in ReqIds :
        ( /\ reqs[r].kind \in Webhooks
          /\ ~Verified(r)
          /\ \/ reqs[r].kind = "stripeWebhook"
             \/ reqs[r].body.method = "credit" /\ reqs[r].body.messageid \in TxIds )
        => /\ reqs[r].pc # "notify"
           /\ Done(r) => reqs[r].res.status # 200

\* C9: card flow Begin Payment.  The row a card Begin Payment inserts is
\* pending and stores the id of the intent whose client secret the response
\* returns; no step of a card Begin Payment changes a stored row or sends a
\* notification.
C9_CardBeginPayment ==
    [][\A r \in DOMAIN reqs' :
         ( /\ reqs'[r].kind = "card"
           /\ r \in ReqIds => reqs'[r] # reqs[r] )
         => /\ emails' = emails
            /\ \A t \in TxIds : transactions'[t] = transactions[t]
            /\ ( reqs'[r].pc = "done" /\ reqs'[r].res.status = 200 )
               => LET t == reqs'[r].res.transactionId IN
                  /\ t \in DOMAIN transactions' /\ t \notin TxIds
                  /\ transactions'[t].paymentStatus = "pending"
                  /\ transactions'[t].stripePaymentIntentId \in DOMAIN intents
                  /\ intents[transactions'[t].stripePaymentIntentId].client_secret
                       = reqs'[r].res.clientSecret]_vars

\* a card Begin Payment has answered with a client secret and its
\* transaction is pending
C9_Witness ==
    \E r \in ReqIds :
        /\ reqs[r].kind = "card" /\ Done(r) /\ reqs[r].res.status = 200
        /\ reqs[r].res.clientSecret # UnknownId
        /\ reqs[r].res.transactionId \in TxIds
        /\ transactions[reqs[r].res.transactionId].paymentStatus = "pending"

\* C10: card settlement.  When a verified succeeded event was the only
\* webhook for a transaction it found pending, the transaction is completed
\* and there is exactly one notification for it, a success notification
\* whose amount is the amount of the provider's intent.
C10_CardSettlement ==
    \A r \in ReqIds :
        ( /\ reqs[r].kind = "stripeWebhook" /\ Done(r) /\ reqs[r].res.status = 200
          /\ reqs[r].transaction.paymentStatus = "pending"
          /\ \A r2 \in ReqIds \ {r} :
                reqs[r2].kind \in Webhooks
                => reqs[r2].transaction.id # reqs[r].transaction.id )
        => LET t == reqs[r].transaction.id IN
           /\ transactions[t].paymentStatus = "completed"
           /\ Cardinality(MailsFor(t)) = 1
           /\ \A i \in MailsFor(t) :
                /\ emails[i].subject = "Payment Successful"
                /\ ~parseFloat(emails[i].amount).nan
                /\ RoundCents(parseFloat(emails[i].amount)) = reqs[r].paymentIntent.amount

\* the same, whatever the notification reports: the transaction is completed
\* and exactly one notification states the provider's amount
CardSettlementAmount ==
    \A r \in ReqIds :
        ( /\ reqs[r].kind = "stripeWebhook" /\ Done(r) /\ reqs[r].res.status = 200
          /\ reqs[r].transaction.paymentStatus = "pending"
          /\ \A r2 \in ReqIds \ {r} :
                reqs[r2].kind \in Webhooks
                => reqs[r2].transaction.id # reqs[r].transaction.id )
        => LET t == reqs[r].transaction.id IN
           /\ transactions[t].paymentStatus = "completed"
           /\ Cardinality(MailsFor(t)) = 1
           /\ \A i \in MailsFor(t) :
                /\ ~parseFloat(emails[i].amount).nan
                /\ RoundCents(parseFloat(emails[i].amount)) = reqs[r].paymentIntent.amount

\* C11: when a validly signed card-provider event reports that the payment
\* failed, and the transaction of that payment intent is stored and not yet
\* terminal, the handler does not end on arrival: it goes on to mark the
\* transaction failed and to notify.
C11_FailedEventHandled ==
    [][\A r \in DOMAIN reqs' \ ReqIds :
         LET q == reqs'[r]
             transaction == getTransactionByPaymentIntentId(q.body.paymentIntent)
         IN  ( /\ q.kind = "stripeWebhook"
               /\ env.STRIPE_WEBHOOK_SECRET /\ env.STRIPE_SECRET_KEY
               /\ q.body.signatureValid
               /\ q.body.type = "payment_intent.payment_failed"
               /\ transaction # NoTransaction
               /\ transaction.paymentStatus \notin Terminal )
             => q.pc # "done"]_vars

\* no webhook request has read or written transaction t
NoWebhookOn(t) ==
    \A r \in ReqIds : reqs[r].kind \in Webhooks => reqs[r].transaction.id # t

\* C12: when the adapter of a synchronous route (carrier billing, bank
\* redirect) reported success and the request answered 200, the transaction
\* it created is completed, exactly one notification exists for it and that
\* notification reports success, and the response carries the transaction id.
C12_SyncSuccess ==
    \A r \in ReqIds :
        ( /\ reqs[r].kind \in {"cellpay", "trustly"} /\ Done(r)
          /\ IsPositiveDecimal(reqs[r].body.amount)
          /\ reqs[r].adapter.success /\ reqs[r].res.status = 200
          /\ NoWebhookOn(reqs[r].transaction.id) )
        => LET t == reqs[r].transaction.id IN
           /\ transactions[t].paymentStatus = "completed"
           /\ reqs[r].res.transactionId = t
           /\ Cardinality(MailsFor(t)) = 1
           /\ \A i \in MailsFor(t) : emails[i].subject = "Payment Successful"

\* the same outcome without the wording of the notification: the status, the
\* response and the number of notifications are as C12 states
SyncSuccessOutcome ==
    \A r \in ReqIds :
        ( /\ reqs[r].kind \in {"cellpay", "trustly"} /\ Done(r)
          /\ IsPositiveDecimal(reqs[r].body.amount)
          /\ reqs[r].adapter.success /\ reqs[r].res.status = 200
          /\ NoWebhookOn(reqs[r].transaction.id) )
        => LET t == reqs[r].transaction.id IN
           /\ transactions[t].paymentStatus = "completed"
           /\ reqs[r].res.transactionId = t
           /\ Cardinality(MailsFor(t)) = 1

\* C13: when the adapter of a synchronous route reported a failure and the
\* request answered (not from its catch), the transaction is failed, the response is 400 with the
\* adapter's error text, and one failure notification carrying that
\* transaction exists.
C13_SyncFailure ==
    \A r \in ReqIds :
        ( /\ reqs[r].kind \in {"cellpay", "trustly"} /\ Done(r)
          /\ reqs[r].transaction # NoTransaction
          /\ reqs[r].adapter # NoAdapter /\ ~reqs[r].adapter.success
          /\ reqs[r].res.status # 500
          /\ NoWebhookOn(reqs[r].transaction.id) )
        => LET t == reqs[r].transaction.id IN
           /\ transactions[t].paymentStatus = "failed"
           /\ reqs[r].res.status = 400
           /\ reqs[r].res.message = <<reqs[r].adapter.error>>
           /\ Cardinality(MailsFor(t)) = 1
           /\ \A i \in MailsFor(t) : emails[i].subject = "Payment Failed"

\* the same outcome without the notification: status and response are as C13
\* states
SyncFailureOutcome ==
    \A r \in ReqIds :
        ( /\ reqs[r].kind \in {"cellpay", "trustly"} /\ Done(r)
          /\ reqs[r].transaction # NoTransaction
          /\ reqs[r].adapter # NoAdapter /\ ~reqs[r].adapter.success
          /\ reqs[r].res.status # 500
          /\ NoWebhookOn(reqs[r].transaction.id) )
        => LET t == reqs[r].transaction.id IN
           /\ transactions[t].paymentStatus = "failed"
           /\ reqs[r].res.status = 400
           /\ reqs[r].res.message = <<reqs[r].adapter.error>>

\* C14: a synchronous route that created its transaction and then ended in
\* its catch (a step after the insert threw) has left the transaction
\* pending: the request marked it neither failed nor completed.
C14_ThrowLeavesPending ==
    \A r \in ReqIds :
        ( /\ reqs[r].kind \in {"cellpay", "trustly"} /\ Done(r)
          /\ reqs[r].transaction # NoTransaction
          /\ reqs[r].res.status = 500
          /\ NoWebhookOn(reqs[r].transaction.id) )
        => transactions[reqs[r].transaction.id].paymentStatus = "pending"

\* a carrier-billing request whose adapter reported success ended in its
\* catch after the insert
C14_Witness ==
    \E r \in ReqIds :
        /\ reqs[r].kind = "cellpay" /\ Done(r)
        /\ reqs[r].transaction.id \in TxIds
        /\ reqs[r].adapter.success
        /\ reqs[r].res.status = 500
        /\ NoWebhookOn(reqs[r].transaction.id)
        /\ transactions[reqs[r].transaction.id].paymentStatus = "pending"

\* C15: when the provider call of a card Begin Payment threw, the request has
\* answered with a generic error that carries nothing of the internal error
\* message, and a failure notification for the user was attempted.
C15_ThrowNotifiedGeneric ==
    \A r \in ReqIds :
        ( /\ reqs[r].kind = "card" /\ Done(r)
          /\ reqs[r].creditPackage # NoPackage /\ env.STRIPE_SECRET_KEY
          /\ IsPositiveDecimal(reqs[r].body.amount)
          /\ reqs[r].paymentIntent = NoIntent )
        => /\ reqs[r].res.status = 500
           /\ Len(reqs[r].res.message) = 1
           /\ \E i \in DOMAIN emails :
                 /\ emails[i].username = reqs[r].body.username
                 /\ emails[i].subject = "Payment Failed"

\* C16: every notification sent for a transaction that was moved to
\* completed reports the payment as successful.
C16_CompletedNotifiedAsSuccess ==
    \A i \in DOMAIN emails :
        ( /\ emails[i].transactionId \in TxIds
          /\ transactions[emails[i].transactionId].paymentStatus = "completed" )
        => emails[i].subject = "Payment Successful"

\* C17: the notifier never raises to its caller.  Whatever the outcome of
\* the delivery, the step in which a handler's call of the notifier returns
\* hands one mail to the transport, leaves every stored status as written and
\* ends the request with its success response.
C17_NotifierNeverRaises ==
    [][\A r \in ReqIds :
         (reqs[r].pc = "notify" /\ Steps(r))
         => /\ Len(emails') = Len(emails) + 1
            /\ transactions' = transactions
            /\ reqs'[r].pc = "done"
            /\ reqs'[r].res.status = 200
            /\ reqs[r].kind \in {"cellpay", "trustly"}
               => reqs'[r].res.transactionId = reqs[r].transaction.id]_vars

\* a carrier-billing request and a webhook request have each ended after a
\* delivery that failed
C17_Witness ==
    \E r1, r2 \in ReqIds :
        /\ reqs[r1].kind = "cellpay" /\ reqs[r2].kind \in Webhooks
        /\ Done(r1) /\ Done(r2)
        /\ reqs[r1].res.status = 200 /\ reqs[r2].res.status = 200
        /\ reqs[r1].transaction.id # reqs[r2].transaction.id
        /\ \E i \in MailsFor(reqs[r1].transaction.id) : ~emails[i].delivered
        /\ \E i \in MailsFor(reqs[r2].transaction.id) : ~emails[i].delivered

\* C18: the credits stored on a transaction are the credits of the package
\* whose id the request supplied, for every package of the catalog.
C18_CreditsOfPackage ==
    \A t \in TxIds :
        /\ getCreditPackage(transactions[t].packageId) # NoPackage
        /\ transactions[t].credits = getCreditPackage(transactions[t].packageId).credits

\* transactions of two different packages are stored, one of them created
\* with an amount that is not the 25 of the smaller package's price
C18_Witness ==
    \E t1, t2 \in TxIds :
        /\ transactions[t1].packageId = "pkg25" /\ transactions[t1].credits = 250
        /\ transactions[t2].packageId = "pkg100" /\ transactions[t2].credits = 1000
        /\ transactions[t2].amount = 2500

\* C19: custom-amount flow.  A Begin Payment without a package id, with a
\* non-empty username and a positive amount, is not turned away as invalid or
\* unknown: once answered, its answer is neither 400 nor 404.
C19_CustomAmountAccepted ==
    \A r \in ReqIds :
        ( /\ reqs[r].kind \in BeginPayments /\ Done(r)
          /\ reqs[r].body.packageId = ""
          /\ reqs[r].body.username # ""
          /\ IsPositiveDecimal(reqs[r].body.amount)
          /\ reqs[r].kind = "cellpay" => reqs[r].body.phoneNumber # ""
          /\ reqs[r].kind = "trustly" => reqs[r].body.email # "" )
        => reqs[r].res.status \notin {400, 404}

\* C20: the package is the source of the price.  The amount stored on a
\* transaction and the amount of a payment intent at the provider are the
\* price of the package the request named, whatever (positive) amount the
\* caller sent.
C20_PackagePriceCharged ==
    /\ \A t \in TxIds :
         transactions[t].amount > 0
         => transactions[t].amount = getCreditPackage(transactions[t].packageId).price
    /\ \A i \in DOMAIN intents :
         intents[i].amount = getCreditPackage(intents[i].metadata.packageId).price

\* C21: a card Begin Payment with all its fields that names a package which
\* is missing from the catalog or inactive creates no payment intent and no
\* transaction, and its answer is 404 (not found).
C21_MissingOrInactivePackage ==
    \A r \in ReqIds :
        ( /\ reqs[r].kind = "card" /\ env.STRIPE_SECRET_KEY
          /\ reqs[r].body.amount # EmptyString /\ reqs[r].body.username # ""
          /\ reqs[r].body.packageId # ""
          /\ \/ getCreditPackage(reqs[r].body.packageId) = NoPackage
             \/ ~getCreditPackage(reqs[r].body.packageId).isActive )
        => /\ Done(r) => reqs[r].res.status = 404
           /\ reqs[r].transaction = NoTransaction
           /\ reqs[r].paymentIntent = NoIntent

\* the part of C21 about a package that is missing from the catalog
MissingPackageNotFound ==
    \A r \in ReqIds :
        ( /\ reqs[r].kind \in BeginPayments
          /\ reqs[r].body.amount # EmptyString /\ reqs[r].body.username # ""
          /\ reqs[r].body.packageId # ""
          /\ reqs[r].kind = "cellpay" => reqs[r].body.phoneNumber # ""
          /\ reqs[r].kind = "trustly" => reqs[r].body.email # ""
          /\ getCreditPackage(reqs[r].body.packageId) = NoPackage )
        => /\ reqs[r].pc \in {"start", "done"}
           /\ Done(r) => reqs[r].res.status = 404
           /\ reqs[r].transaction = NoTransaction
           /\ reqs[r].paymentIntent = NoIntent

\* C22: amount invariant.  Every stored transaction has amount > 0, whatever
\* amounts the callers of Begin Payment sent.
C22_AmountPositive ==
    \A t \in TxIds : transactions[t].amount > 0

\* C26: a Begin Payment whose payment method is no label of the stored
\* payment-method enumeration is rejected at the request boundary: it gets
\* no further than its arrival, is answered 400, and neither a payment
\* intent nor a transaction is created for it.
C26_UnknownMethodRejected ==
    \A r \in ReqIds :
        ( /\ reqs[r].kind = "card" /\ env.STRIPE_SECRET_KEY
          /\ reqs[r].body.paymentMethod \notin paymentMethodEnum )
        => /\ Done(r) => reqs[r].res.status = 400
           /\ reqs[r].paymentIntent = NoIntent
           /\ reqs[r].transaction = NoTransaction

\* C23: provider references are unique per transaction.  No two stored
\* transactions carry the same non-null provider reference, so the lookup of
\* the card webhook by payment intent id matches at most one row.
C23_ProviderReferenceUnique ==
    \A t1, t2 \in TxIds :
        ( /\ t1 # t2
          /\ transactions[t1].stripePaymentIntentId # UnknownId )
        => transactions[t1].stripePaymentIntentId # transactions[t2].stripePaymentIntentId

\* two card transactions of the same request data are stored with their
\* references, and a card webhook has looked one of them up by its reference
C23_Witness ==
    \E t1, t2 \in TxIds : \E r \in ReqIds :
        /\ t1 # t2
        /\ transactions[t1].stripePaymentIntentId # UnknownId
        /\ transactions[t2].stripePaymentIntentId # UnknownId
        /\ transactions[t1].username = transactions[t2].username
        /\ transactions[t1].packageId = transactions[t2].packageId
        /\ transactions[t1].amount = transactions[t2].amount
        /\ reqs[r].kind = "stripeWebhook"
        /\ reqs[r].transaction.id = t2

(* ------------------------------ termination ---------------------------- *)

\* The Begin Payment routes alone, with the scheduling the runtime gives: a
\* handler whose store call or notifier call has returned goes on.  Nothing
\* makes a provider answer: stripe.paymentIntents.create and the fetch of
\* processCellPayPayment are awaited without a timeout, so the steps
\* StripeCreateIntent and ProcessPayment carry no fairness.
LiveNext ==
    \/ \E body \in CardBodies :
         Len(reqs) < MaxLiveRequests /\ CreatePaymentIntent(body)
    \/ \E r \in ReqIds : StripeCreateIntent(r)
    \/ \E r \in ReqIds : CardCreateTransaction(r)
    \/ \E body \in CellPayBodies :
         Len(reqs) < MaxLiveRequests /\ CellPayPayment(body)
    \/ \E r \in ReqIds : SyncCreateTransaction(r)
    \/ \E r \in ReqIds : ProcessPayment(r)
    \/ \E r \in ReqIds : SyncUpdateStatus(r)
    \/ \E r \in ReqIds : SyncNotify(r)

\* a step of request r that waits for the store or the notifier only
LocalStep(r) ==
    /\ r \in ReqIds
    /\ \/ CardCreateTransaction(r)
       \/ SyncCreateTransaction(r)
       \/ SyncUpdateStatus(r)
       \/ SyncNotify(r)

LiveSpec ==
    /\ Init
    /\ [][LiveNext]_vars
    /\ \A r \in 1..MaxLiveRequests : WF_vars(LocalStep(r))

\* C24: no operation blocks indefinitely.  Every Begin Payment request that
\* was received (here: with a well-formed amount) is eventually answered,
\* also when the provider never answers.
C24_EveryRequestAnswered ==
    \A r \in 1..MaxLiveRequests :
        []((r \in ReqIds /\ IsPositiveDecimal(reqs[r].body.amount))
           => <>(r \in ReqIds /\ Done(r)))

\* C25: updateStatus with an id that matches no stored transaction fails
\* with a not-found error: for every table with rows that the program
\* reaches and every id that is not in it, the call does not return normally.
C25_UpdateUnknownIdFails ==
    transactions # <<>>
    => \A id \in (0 .. Len(transactions) + 1) \ TxIds :
          \A status \in paymentStatusEnum :
              updateTransactionStatusResult(id, status).threw

\* the rows a step has changed
Changed == { t \in TxIds : transactions'[t] # transactions[t] }

C28_NotifyAfterWrite ==
    [][/\ \A r \in ReqIds :
            (reqs[r].pc # "notify" /\ reqs'[r].pc = "notify")
            => /\ reqs[r].transaction.id \in TxIds
               /\ transactions'[reqs[r].transaction.id].paymentStatus = "completed"
       /\ Len(emails') > Len(emails)
          => LET mail == emails'[Len(emails')] IN
             /\ Len(emails') = Len(emails) + 1
             /\ mail.transactionId \in TxIds
             /\ transactions[mail.transactionId].paymentStatus # "pending"
             /\ \E r \in ReqIds :
                   /\ reqs[r].pc = "notify" /\ Steps(r)
                   /\ reqs[r].transaction.id = mail.transactionId]_vars

\* a synchronous route and the card webhook have each sent a notification,
\* for two transactions that are completed
C28_Witness ==
    \E i, j \in DOMAIN emails :
        /\ emails[i].paymentMethod = "CellPay"
        /\ emails[j].paymentMethod = "Stripe"
        /\ emails[i].transactionId # emails[j].transactionId
        /\ transactions[emails[i].transactionId].paymentStatus = "completed"
        /\ transactions[emails[j].transactionId].paymentStatus = "completed"

\* C29: a card Begin Payment answers with a client secret only when a
\* transaction carrying the id of that intent is stored; and every payment
\* intent created by a card Begin Payment that has ended has a stored
\* transaction carrying its id, so that a succeeded event for it finds one.
C29_IntentHasTransaction ==
    \A r \in ReqIds :
        (reqs[r].kind = "card" /\ Done(r))
        => /\ reqs[r].res.clientSecret # UnknownId
              => \E t \in TxIds :
                    /\ transactions[t].stripePaymentIntentId = reqs[r].paymentIntent.id
                    /\ reqs[r].paymentIntent.client_secret = reqs[r].res.clientSecret
           /\ reqs[r].paymentIntent # NoIntent
              => \E t \in TxIds :
                    transactions[t].stripePaymentIntentId = reqs[r].paymentIntent.id

\* the first half of C29: a client secret is returned only with a stored
\* transaction of that intent
SecretOnlyWithTransaction ==
    \A r \in ReqIds :
        (reqs[r].kind = "card" /\ reqs[r].res.clientSecret # UnknownId)
        => \E t \in TxIds :
              /\ transactions[t].stripePaymentIntentId = reqs[r].paymentIntent.id
              /\ reqs[r].paymentIntent.client_secret = reqs[r].res.clientSecret

(* ----------------------------- payment page ---------------------------- *)

\* what the user can type or pick on the page
PageUsernameInputs == { "alice", "bob" }

PageCustomAmountInputs == { <<"5">>, <<"0">> }

PageMethodInputs == { "stripe", "trustly" }

\* storage.getCreditPackages: the packages the page offers
getCreditPackages == { p \in creditPackages : p.isActive }

\* getPaymentAmount of the page: the custom amount, or the price of the
\* selected package (as the string the API gives for the decimal column; only
\* its value in cents is used below), or ""
getPaymentAmount ==
    IF page.useCustomAmount /\ page.customAmount # EmptyString
    THEN page.customAmount
    ELSE IF page.selectedPackage # NoPackage
    THEN CentsToString(page.selectedPackage.price)
    ELSE EmptyString

\* createPaymentIntentMutation.mutate(variables): the request body is built
\* from the variables and the username of that render
mutate(packageId, amount) ==
    Append(page.mutations,
           [username |-> page.username, packageId |-> packageId,
            amount |-> amount, settled |-> FALSE])

CanMutate == Len(page.mutations) < MaxMutations

\* onChange of the username field
setUsername(u) ==
    /\ page' = [page EXCEPT !.username = u]
    /\ UNCHANGED <<env, transactions, intents, emails, reqs, now>>

handlePackageSelect(pkg) ==
    /\ LET sends == page.paymentMethod = "stripe" /\ page.username # "" IN
       /\ sends => CanMutate
       /\ page' = [page EXCEPT !.selectedPackage = pkg,
                               !.useCustomAmount = FALSE,
                               !.customAmount = EmptyString,
                               !.mutations = IF sends
                                             THEN mutate(pkg.id, CentsToString(pkg.price))
                                             ELSE @]
    /\ UNCHANGED <<env, transactions, intents, emails, reqs, now>>

handleCustomAmountChange(amount) ==
    /\ page' = [page EXCEPT !.customAmount = amount,
                            !.useCustomAmount = TRUE,
                            !.selectedPackage = NoPackage,
                            !.isPaymentReady = FALSE,
                            !.clientSecret = UnknownId]
    /\ UNCHANGED <<env, transactions, intents, emails, reqs, now>>

handleCustomAmountConfirm ==
    /\ LET sends == /\ page.customAmount # EmptyString
                    /\ ~parseFloat(page.customAmount).nan
                    /\ RoundCents(parseFloat(page.customAmount)) >= 100
                    /\ page.username # ""
                    /\ page.paymentMethod = "stripe" IN
       /\ sends => CanMutate
       /\ page' = [page EXCEPT !.mutations = IF sends
                                             THEN mutate("custom", page.customAmount)
                                             ELSE @]
    /\ UNCHANGED <<env, transactions, intents, emails, reqs, now>>

handlePaymentMethodChange(method) ==
    /\ LET amount == getPaymentAmount
           sends == method = "stripe" /\ amount # EmptyString /\ page.username # "" IN
       /\ sends => CanMutate
       /\ page' = [page EXCEPT !.paymentMethod = method,
                               !.isPaymentReady = FALSE,
                               !.clientSecret = UnknownId,
                               !.mutations = IF sends
                                             THEN mutate(IF page.useCustomAmount THEN "custom"
                                                         ELSE page.selectedPackage.id, amount)
                                             ELSE @]
    /\ UNCHANGED <<env, transactions, intents, emails, reqs, now>>

\* whether POST /api/create-payment-intent answers request body m of the page
\* with success and a client secret (the provider being configured and
\* answering): all fields present, the package found, the intent and the
\* transaction created
createPaymentIntentSucceeds(m) ==
    /\ m.amount # EmptyString /\ m.username # "" /\ m.packageId # ""
    /\ getCreditPackage(m.packageId) # NoPackage
    /\ IntentAmountOk(m.amount)
    /\ createTransactionOk([username |-> m.username, packageId |-> m.packageId,
                            amount |-> m.amount, paymentMethod |-> "stripe_card"])

\* The answer to the k-th mutate call arrives (in any order).  onSuccess of
\* useMutation runs for every call that succeeds, also for one that a later
\* call has superseded: it stores the client secret of the intent created for
\* that call (named k here) and shows the card form.  Any other answer leaves
\* the state of the page as it is.
MutationSettles(k) ==
    /\ k \in DOMAIN page.mutations
    /\ ~page.mutations[k].settled
    /\ page' = IF createPaymentIntentSucceeds(page.mutations[k])
               THEN [page EXCEPT !.mutations[k].settled = TRUE,
                                 !.clientSecret = k,
                                 !.isPaymentReady = TRUE]
               ELSE [page EXCEPT !.mutations[k].settled = TRUE]
    /\ UNCHANGED <<env, transactions, intents, emails, reqs, now>>

PageNext ==
    \/ \E u \in PageUsernameInputs : setUsername(u)
    \/ \E pkg \in getCreditPackages : handlePackageSelect(pkg)
    \/ \E amount \in PageCustomAmountInputs : handleCustomAmountChange(amount)
    \/ handleCustomAmountConfirm
    \/ \E method \in PageMethodInputs : handlePaymentMethodChange(method)
    \/ \E k \in 1..MaxMutations : MutationSettles(k)

PageSpec == Init /\ [][PageNext]_vars

\* C30: whenever the page shows the card form as ready, with a client
\* secret, that secret is the one of the intent created for the username and
\* the amount the page shows now.
C30_ReadySecretIsCurrent ==
    (page.isPaymentReady /\ page.clientSecret # UnknownId)
    => LET m == page.mutations[page.clientSecret] IN
       /\ m.username = page.username
       /\ getPaymentAmount # EmptyString
       /\ IntentAmount(m.amount) = IntentAmount(getPaymentAmount)

============================================================================
